---- MODULE Spec2Model ----
(***************************************************************************)
(* Model of core/state-machine/src/overlayed_changes.rs: the transactional *)
(* overlay OverlayedChanges / OverlayedChangeSet.                          *)
(*                                                                         *)
(* The nesting ledger (historied_data::linear::States), the per-key value  *)
(* history (historied_data::linear::History) and the gc configuration      *)
(* (historied_data::DEFAULT_GC_CONF) live in another crate; they are       *)
(* modelled from the specification (sections 4.1, 4.2, 4.6).  The ledger   *)
(* of section 4.1 is refined by one marker, "TxPending", a Pending layer   *)
(* opened by start_transaction: it is what lets discard_transaction and    *)
(* commit_transaction find the start of the innermost open transaction,    *)
(* as tests::overlayed_storage_transactions requires.                      *)
(*                                                                         *)
(* Rust Option values are sequences of length 0 or 1: None == <<>>,        *)
(* Some(x) == <<x>>.  Byte strings are sequences of naturals.  A HashMap   *)
(* is a function whose DOMAIN is the set of keys present.                  *)
(***************************************************************************)
EXTENDS Integers, Sequences, FiniteSets, TLC

----------------------------------------------------------------------------
(* Bounds of the model *)

\* longest ledger explored: every boundary call appends one layer
MaxLayers == 4
\* number of write calls (set_*, clear_*) explored in one run
MaxWrites == 2

----------------------------------------------------------------------------
(* Option, maps, bytes *)

None == <<>>
Some(x) == <<x>>
is_some(o) == o # <<>>
is_none(o) == o = <<>>
unwrap(o) == o[1]

EmptyMap == [k \in {} |-> <<>>]
\* HashMap::insert / entry().or_default() followed by assignment
MapInsert(m, k, v) == [x \in (DOMAIN m) \cup {k} |-> IF x = k THEN v ELSE m[x]]

SetMax(S) == CHOOSE x \in S : \A y \in S : y <= x

\* slice::starts_with
starts_with(key, prefix) ==
    /\ Len(prefix) <= Len(key)
    /\ \A i \in 1..Len(prefix) : key[i] = prefix[i]

\* A u32 is represented by its four little-endian bytes (0xffffffff exceeds the
\* integers of the model checker), so that the codec below is the real one.
\* parity-codec Encode for u32: four little-endian bytes
Encode(n) == << n % 256, (n \div 256) % 256, (n \div 65536) % 256, (n \div 16777216) % 256 >>
\* Decode::decode(&mut &*idx).ok(): fails on fewer than four bytes, reads the
\* first four and ignores the rest
Decode(bytes) == IF Len(bytes) < 4 THEN None ELSE Some(SubSeq(bytes, 1, 4))

\* changes_trie::NO_EXTRINSIC_INDEX (0xffffffff)
NO_EXTRINSIC_INDEX == <<255, 255, 255, 255>>
\* well_known_keys::EXTRINSIC_INDEX, b":extrinsic_index"
EXTRINSIC_INDEX == <<58, 101, 120, 116, 114, 105, 110, 115, 105, 99, 95, 105, 110, 100, 101, 120>>

----------------------------------------------------------------------------
(* Inputs *)

Key1 == <<1>>
Keys == {EXTRINSIC_INDEX, Key1}
StorageKeys == {<<9>>}
ChildKeys == {Key1}
\* the empty prefix matches every key, Key1 does not match EXTRINSIC_INDEX
Prefixes == {<<>>, Key1}
\* values written to a child key: a tombstone and one byte
ChildValues == {None, Some(<<7>>)}
\* ChangesTrieConfig { digest_interval, digest_levels }
ConfigA == [digest_interval |-> 4, digest_levels |-> 1]
ConfigB == [digest_interval |-> 2, digest_levels |-> 1]
Configs == {ConfigA, ConfigB}

----------------------------------------------------------------------------
(* historied_data::DEFAULT_GC_CONF *)

trigger_transaction_gc == 1
trigger_commit_gc == 2
add_content_size_unit == 4
\* GCConfiguration::operation_cost: one per write, plus one per unit of content
operation_cost(value) ==
    IF is_some(value) THEN 1 + (Len(unwrap(value)) \div add_content_size_unit) ELSE 1

----------------------------------------------------------------------------
(* historied_data::linear::States: the nesting ledger.                     *)
(* states is the sequence of layer markers (layer i is states[i + 1]),     *)
(* committed the committed cursor.                                         *)

Mark(states, index) == states[index + 1]

\* index of the layer that opened the innermost open transaction, or the
\* committed cursor when no transaction is open
TransactionStart(states, committed) ==
    LET open == {i \in committed..(Len(states) - 1) : Mark(states, i) = "TxPending"}
    IN IF open = {} THEN committed ELSE SetMax(open)

States_start_transaction(states) == Append(states, "TxPending")

States_discard_transaction(states, committed) ==
    LET from == TransactionStart(states, committed)
    IN Append([i \in 1..Len(states) |-> IF i - 1 >= from THEN "Dropped" ELSE states[i]],
              "Pending")

\* slip: every layer of the transaction is marked Committed, the Dropped too
States_commit_transaction_slip(states, committed) ==
    LET from == TransactionStart(states, committed)
    IN Append([i \in 1..Len(states) |-> IF i - 1 >= from THEN "Committed" ELSE states[i]],
              "Pending")

States_commit_transaction(states, committed) ==
    LET from == TransactionStart(states, committed)
    IN Append([i \in 1..Len(states) |->
                 IF i - 1 >= from /\ states[i] \in {"Pending", "TxPending"}
                 THEN "Committed" ELSE states[i]],
              "Pending")

States_discard_prospective(states, committed) ==
    Append([i \in 1..Len(states) |-> IF i - 1 >= committed THEN "Dropped" ELSE states[i]],
           "Pending")

\* the cursor moves to the current length, then a Pending layer is appended
States_commit_prospective(states) == Append(states, "Pending")

----------------------------------------------------------------------------
(* historied_data::linear::History: a sequence of                          *)
(* [index, value] entries, value an OverlayedValue [value, extrinsics].    *)

HistoriedValue(value, index) == [value |-> value, index |-> index]
OverlayedValue(value, extrinsics) == [value |-> value, extrinsics |-> extrinsics]

\* positions of the entries whose layer is not Dropped
Live(h, states) == {i \in 1..Len(h) : Mark(states, h[i].index) # "Dropped"}

\* History::get
get(h, states) ==
    IF Live(h, states) = {} THEN None ELSE Some(h[SetMax(Live(h, states))].value)

\* History::get_committed: the latest live entry strictly below the cursor
get_committed(h, states, committed) ==
    LET below == {i \in Live(h, states) : h[i].index < committed}
    IN IF below = {} THEN None ELSE Some(h[SetMax(below)].value)

\* History::into_committed: get_committed on a history given away
History_into_committed(h, states, committed) == get_committed(h, states, committed)

\* History::get_prospective: the latest live entry at or above the cursor
get_prospective(h, states, committed) ==
    LET above == {i \in Live(h, states) : h[i].index >= committed}
    IN IF above = {} THEN None ELSE Some(h[SetMax(above)].value)

\* History::get_mut drops the trailing entries of Dropped layers; what is left
\* ends with the entry it returns (None when nothing is left)
get_mut_history(h, states) ==
    IF Live(h, states) = {} THEN <<>> ELSE SubSeq(h, 1, SetMax(Live(h, states)))

get_mut(h, states) ==
    LET rest == get_mut_history(h, states)
    IN IF rest = <<>> THEN None ELSE Some(rest[Len(rest)])

push_unchecked(h, entry) == Append(h, entry)

\* History::set
set(h, states, value) ==
    LET state == Len(states) - 1
        rest == get_mut_history(h, states)
    IN IF rest # <<>> /\ rest[Len(rest)].index = state
       THEN [rest EXCEPT ![Len(rest)].value = value]
       ELSE push_unchecked(rest, HistoriedValue(value, state))

\* entry i can never be resolved again although its layer is not Dropped: a later
\* live entry j hides it and every discard that drops j drops i as well (both
\* prospective and no open transaction starts in between), or, when the cursor is
\* supplied, both lie below the cursor
Superseded(h, states, committed, cursor, i) ==
    \E j \in Live(h, states) :
        /\ j > i
        /\ \/ /\ h[i].index >= committed
              /\ \A l \in (h[i].index + 1)..h[j].index : Mark(states, l) # "TxPending"
           \/ /\ is_some(cursor)
              /\ h[j].index < unwrap(cursor)

SelectPositions(h, keep) ==
    LET F[n \in 0..Len(h)] ==
          IF n = 0 THEN <<>>
          ELSE IF n \in keep THEN Append(F[n - 1], h[n]) ELSE F[n - 1]
    IN F[Len(h)]

\* History::get_mut_pruning: the history after pruning; the call returns its
\* last entry, None when it is empty
get_mut_pruning(h, states, committed, cursor) ==
    SelectPositions(h, {i \in Live(h, states) :
                          ~Superseded(h, states, committed, cursor, i)})

----------------------------------------------------------------------------
(* overlayed_changes.rs *)

ExtrinsicsOf(value) == IF is_some(value.extrinsics) THEN unwrap(value.extrinsics) ELSE {}

\* slip: the entry returned by get_mut is overwritten whatever its layer
set_with_extrinsic_inner_overlayed_value_slip(h_value, states, value, extrinsic_index) ==
    LET state == Len(states) - 1
        rest == get_mut_history(h_value, states)
    IN IF rest # <<>>
       THEN [rest EXCEPT ![Len(rest)].value =
                OverlayedValue(value, Some(ExtrinsicsOf(@) \cup {extrinsic_index}))]
       ELSE push_unchecked(rest,
                HistoriedValue(OverlayedValue(value, Some({extrinsic_index})), state))

\* slip: every write appends an entry
set_with_extrinsic_inner_overlayed_value_push(h_value, states, value, extrinsic_index) ==
    LET state == Len(states) - 1
        rest == get_mut_history(h_value, states)
    IN IF rest # <<>>
       THEN push_unchecked(rest,
                HistoriedValue(OverlayedValue(value,
                    Some(ExtrinsicsOf(rest[Len(rest)].value) \cup {extrinsic_index})), state))
       ELSE push_unchecked(rest,
                HistoriedValue(OverlayedValue(value, Some({extrinsic_index})), state))

\* slip: a write in place keeps only the index of that write
set_with_extrinsic_inner_overlayed_value_replace(h_value, states, value, extrinsic_index) ==
    LET state == Len(states) - 1
        rest == get_mut_history(h_value, states)
    IN IF rest # <<>>
       THEN LET current == rest[Len(rest)]
            IN IF current.index = state
               THEN [rest EXCEPT ![Len(rest)].value =
                        OverlayedValue(value, Some({extrinsic_index}))]
               ELSE push_unchecked(rest,
                        HistoriedValue(OverlayedValue(value,
                            Some(ExtrinsicsOf(current.value) \cup {extrinsic_index})), state))
       ELSE push_unchecked(rest,
                HistoriedValue(OverlayedValue(value, Some({extrinsic_index})), state))

\* slip: an appended entry starts from an empty set
set_with_extrinsic_inner_overlayed_value_fresh(h_value, states, value, extrinsic_index) ==
    LET state == Len(states) - 1
        rest == get_mut_history(h_value, states)
    IN IF rest # <<>>
       THEN LET current == rest[Len(rest)]
            IN IF current.index = state
               THEN [rest EXCEPT ![Len(rest)].value =
                        OverlayedValue(value,
                            Some(ExtrinsicsOf(current.value) \cup {extrinsic_index}))]
               ELSE push_unchecked(rest,
                        HistoriedValue(OverlayedValue(value, Some({extrinsic_index})), state))
       ELSE push_unchecked(rest,
                HistoriedValue(OverlayedValue(value, Some({extrinsic_index})), state))

\* slip: the set is copied from the latest entry of the history, be its layer
\* Dropped
set_with_extrinsic_inner_overlayed_value_leak(h_value, states, value, extrinsic_index) ==
    LET state == Len(states) - 1
        rest == get_mut_history(h_value, states)
        copied == IF h_value # <<>> THEN ExtrinsicsOf(h_value[Len(h_value)].value) ELSE {}
    IN IF rest # <<>> /\ rest[Len(rest)].index = state
       THEN [rest EXCEPT ![Len(rest)].value =
                OverlayedValue(value, Some(ExtrinsicsOf(@) \cup {extrinsic_index}))]
       ELSE push_unchecked(rest,
                HistoriedValue(OverlayedValue(value, Some(copied \cup {extrinsic_index})),
                               state))

set_with_extrinsic_inner_overlayed_value(h_value, states, value, extrinsic_index) ==
    LET state == Len(states) - 1
        rest == get_mut_history(h_value, states)
    IN IF rest # <<>>
       THEN LET current == rest[Len(rest)]
                extrinsics == Some(ExtrinsicsOf(current.value) \cup {extrinsic_index})
            IN IF current.index = state
               THEN [rest EXCEPT ![Len(rest)].value = OverlayedValue(value, extrinsics)]
               ELSE push_unchecked(rest,
                        HistoriedValue(OverlayedValue(value, extrinsics), state))
       ELSE push_unchecked(rest,
                HistoriedValue(OverlayedValue(value, Some({extrinsic_index})), state))

\* slip: without an extrinsic index the write is recorded under the sentinel
set_with_extrinsic_overlayed_value_slip(h_value, states, value, extrinsic_index) ==
    set_with_extrinsic_inner_overlayed_value(h_value, states, value,
        IF is_some(extrinsic_index) THEN unwrap(extrinsic_index) ELSE NO_EXTRINSIC_INDEX)

set_with_extrinsic_overlayed_value(h_value, states, value, extrinsic_index) ==
    IF is_some(extrinsic_index)
    THEN set_with_extrinsic_inner_overlayed_value(h_value, states, value,
                                                  unwrap(extrinsic_index))
    ELSE set(h_value, states, OverlayedValue(value, None))

\* HashMap::retain over the pruned histories
PruneMap(m, states, committed, cursor) ==
    LET pruned == [k \in DOMAIN m |-> get_mut_pruning(m[k], states, committed, cursor)]
    IN [k \in {x \in DOMAIN m : pruned[x] # <<>>} |-> pruned[k]]

\* slip: a child map is kept or removed by what it held before its keys were pruned
gc_slip(o, eager) ==
    LET committed == IF eager THEN Some(o.committed) ELSE None
        children == [sk \in DOMAIN o.children |->
                        PruneMap(o.children[sk], o.states, o.committed, committed)]
    IN [o EXCEPT
          !.top = PruneMap(o.top, o.states, o.committed, committed),
          !.children = [sk \in {x \in DOMAIN children : DOMAIN o.children[x] # {}} |->
                           children[sk]]]

\* OverlayedChangeSet::gc
gc(o, eager) ==
    LET committed == IF eager THEN Some(o.committed) ELSE None
        children == [sk \in DOMAIN o.children |->
                        PruneMap(o.children[sk], o.states, o.committed, committed)]
    IN [o EXCEPT
          !.top = PruneMap(o.top, o.states, o.committed, committed),
          !.children = [sk \in {x \in DOMAIN children : DOMAIN children[x] # {}} |->
                           children[sk]]]

\* OverlayedChangeSet::is_empty
is_empty(o) == DOMAIN o.top = {} /\ DOMAIN o.children = {}

\* slip: the latest entry is read whatever the mark of its layer
storage_slip(o, key) ==
    IF key \in DOMAIN o.top /\ o.top[key] # <<>>
    THEN Some(o.top[key][Len(o.top[key])].value.value)
    ELSE None

\* OverlayedChanges::storage
storage(o, key) ==
    IF key \in DOMAIN o.top
    THEN LET o_value == get(o.top[key], o.states)
         IN IF is_some(o_value) THEN Some(unwrap(o_value).value) ELSE None
    ELSE None

\* OverlayedChanges::child_storage
child_storage(o, storage_key, key) ==
    IF storage_key \in DOMAIN o.children /\ key \in DOMAIN o.children[storage_key]
    THEN LET o_value == get(o.children[storage_key][key], o.states)
         IN IF is_some(o_value) THEN Some(unwrap(o_value).value) ELSE None
    ELSE None

\* slip: bytes too short for a u32 are padded with zeros instead of refused
extrinsic_index_slip(o) ==
    IF is_some(o.changes_trie_config)
    THEN LET idx == storage(o, EXTRINSIC_INDEX)
         IN Some(IF is_some(idx) /\ is_some(unwrap(idx))
                 THEN [i \in 1..4 |-> IF i <= Len(unwrap(unwrap(idx)))
                                      THEN unwrap(unwrap(idx))[i] ELSE 0]
                 ELSE NO_EXTRINSIC_INDEX)
    ELSE None

\* OverlayedChanges::extrinsic_index
extrinsic_index(o) ==
    IF is_some(o.changes_trie_config)
    THEN LET idx == storage(o, EXTRINSIC_INDEX)
             decoded == IF is_some(idx) /\ is_some(unwrap(idx))
                        THEN Decode(unwrap(unwrap(idx))) ELSE None
         IN Some(IF is_some(decoded) THEN unwrap(decoded) ELSE NO_EXTRINSIC_INDEX)
    ELSE None

\* slip: a different configuration silently replaces the installed one
set_changes_trie_config_slip(o, config) == [o EXCEPT !.changes_trie_config = Some(config)]

\* OverlayedChanges::set_changes_trie_config: the state after the call
set_changes_trie_config(o, config) ==
    IF is_some(o.changes_trie_config) /\ unwrap(o.changes_trie_config) # config
    THEN o
    ELSE [o EXCEPT !.changes_trie_config = Some(config)]

\* OverlayedChanges::set_changes_trie_config: the value returned
set_changes_trie_config_result(o, config) ==
    ~(is_some(o.changes_trie_config) /\ unwrap(o.changes_trie_config) # config)

\* OverlayedChanges::remove_changes_trie_config
remove_changes_trie_config(o) == [o EXCEPT !.changes_trie_config = None]

\* OverlayedChanges::set_storage
set_storage(o, key, value) ==
    LET entry == IF key \in DOMAIN o.top THEN o.top[key] ELSE <<>>
    IN [o EXCEPT
          !.operation_from_last_gc = @ + operation_cost(value),
          !.top = MapInsert(o.top, key,
                      set_with_extrinsic_overlayed_value(entry, o.states, value,
                                                         extrinsic_index(o)))]

\* OverlayedChanges::set_child_storage
set_child_storage(o, storage_key, key, value) ==
    LET map_entry == IF storage_key \in DOMAIN o.children
                     THEN o.children[storage_key] ELSE EmptyMap
        entry == IF key \in DOMAIN map_entry THEN map_entry[key] ELSE <<>>
    IN [o EXCEPT
          !.operation_from_last_gc = @ + operation_cost(value),
          !.children = MapInsert(o.children, storage_key,
                          MapInsert(map_entry, key,
                              set_with_extrinsic_overlayed_value(entry, o.states, value,
                                                                 extrinsic_index(o))))]

\* slip in the loop: the test of the prefix is left out, every key of the map
\* is written a tombstone
ClearMatching_slip(m, prefix, states, ext) ==
    [k \in DOMAIN m |-> set_with_extrinsic_overlayed_value(m[k], states, None, ext)]

\* a tombstone written to every key of the map that starts with the prefix
ClearMatching(m, prefix, states, ext) ==
    [k \in DOMAIN m |->
        IF starts_with(k, prefix)
        THEN set_with_extrinsic_overlayed_value(m[k], states, None, ext)
        ELSE m[k]]

\* OverlayedChanges::clear_child_storage
clear_child_storage(o, storage_key) ==
    LET map_entry == IF storage_key \in DOMAIN o.children
                     THEN o.children[storage_key] ELSE EmptyMap
    IN [o EXCEPT
          !.operation_from_last_gc = @ + Cardinality(DOMAIN map_entry),
          !.children = MapInsert(o.children, storage_key,
                          ClearMatching(map_entry, <<>>, o.states, extrinsic_index(o)))]

\* OverlayedChanges::clear_prefix
clear_prefix(o, prefix) ==
    LET number_removed == Cardinality({k \in DOMAIN o.top : starts_with(k, prefix)})
    IN [o EXCEPT
          !.operation_from_last_gc = @ + number_removed,
          !.top = ClearMatching(o.top, prefix, o.states, extrinsic_index(o))]

\* OverlayedChanges::clear_child_prefix
clear_child_prefix(o, storage_key, prefix) ==
    IF storage_key \in DOMAIN o.children
    THEN LET child_change == o.children[storage_key]
             number_removed == Cardinality({k \in DOMAIN child_change :
                                              starts_with(k, prefix)})
         IN [o EXCEPT
               !.operation_from_last_gc = @ + number_removed,
               !.children = MapInsert(o.children, storage_key,
                               ClearMatching(child_change, prefix, o.states,
                                             extrinsic_index(o)))]
    ELSE o

\* slips in the forwarding: the wrong ledger method is called
ChangeSet_discard_prospective_slip(o) ==
    [o EXCEPT !.states = States_discard_transaction(o.states, o.committed)]
ChangeSet_commit_prospective_slip(o) ==
    [o EXCEPT !.states = States_commit_transaction(o.states, o.committed)]
ChangeSet_discard_transaction_slip(o) ==
    [o EXCEPT !.states = States_commit_transaction(o.states, o.committed)]

\* slip: the entries of the layers discarded are removed from the histories
ChangeSet_discard_transaction_prune(o) ==
    gc([o EXCEPT !.states = States_discard_transaction(o.states, o.committed)], FALSE)

\* OverlayedChangeSet boundary methods: they forward to the ledger
ChangeSet_discard_prospective(o) ==
    [o EXCEPT !.states = States_discard_prospective(o.states, o.committed)]
ChangeSet_commit_prospective(o) ==
    [o EXCEPT !.states = States_commit_prospective(o.states), !.committed = Len(o.states)]
ChangeSet_start_transaction(o) ==
    [o EXCEPT !.states = States_start_transaction(o.states)]
ChangeSet_discard_transaction(o) ==
    [o EXCEPT !.states = States_discard_transaction(o.states, o.committed)]
ChangeSet_commit_transaction(o) ==
    [o EXCEPT !.states = States_commit_transaction(o.states, o.committed)]

\* slip: the collection already runs when the counter has reached the threshold
TriggerGc_slip(o, trigger, eager) ==
    IF o.operation_from_last_gc >= trigger
    THEN gc([o EXCEPT !.operation_from_last_gc = 0], eager)
    ELSE o

\* the amortized collection that ends every boundary method of OverlayedChanges
TriggerGc(o, trigger, eager) ==
    IF o.operation_from_last_gc > trigger
    THEN gc([o EXCEPT !.operation_from_last_gc = 0], eager)
    ELSE o

\* OverlayedChanges boundary methods
discard_prospective(o) ==
    TriggerGc(ChangeSet_discard_prospective(o), trigger_commit_gc, ~o.not_eager_gc)
commit_prospective(o) ==
    TriggerGc(ChangeSet_commit_prospective(o), trigger_commit_gc, ~o.not_eager_gc)
start_transaction(o) ==
    TriggerGc(ChangeSet_start_transaction(o), trigger_transaction_gc, FALSE)
discard_transaction(o) ==
    TriggerGc(ChangeSet_discard_transaction(o), trigger_transaction_gc, FALSE)
commit_transaction(o) ==
    TriggerGc(ChangeSet_commit_transaction(o), trigger_transaction_gc, FALSE)

\* OverlayedChanges::default()
Default(not_eager_gc) ==
    [states |-> <<"Pending">>, committed |-> 0,
     top |-> EmptyMap, children |-> EmptyMap,
     changes_trie_config |-> None,
     operation_from_last_gc |-> 0,
     not_eager_gc |-> not_eager_gc]

----------------------------------------------------------------------------
(* Observations *)

\* storage(k) for every top key
TopView(o) == [k \in Keys |-> storage(o, k)]
\* child_storage(sk, k) for every child key
ChildView(o) == [sk \in StorageKeys |-> [k \in ChildKeys |-> child_storage(o, sk, k)]]

\* slip: the latest entry of every key is yielded, whatever the mark of its layer
iter_overlay_slip(o, storage_key) ==
    LET option_map == IF is_some(storage_key)
                      THEN IF unwrap(storage_key) \in DOMAIN o.children
                           THEN Some(o.children[unwrap(storage_key)]) ELSE None
                      ELSE Some(o.top)
    IN IF is_none(option_map) THEN {}
       ELSE LET map == unwrap(option_map)
            IN {<<k, map[k][Len(map[k])].value>> :
                   k \in {x \in DOMAIN map : map[x] # <<>>}}

\* OverlayedChangeSet::iter_overlay: the (key, OverlayedValue) pairs it yields
iter_overlay(o, storage_key) ==
    LET option_map == IF is_some(storage_key)
                      THEN IF unwrap(storage_key) \in DOMAIN o.children
                           THEN Some(o.children[unwrap(storage_key)]) ELSE None
                      ELSE Some(o.top)
    IN IF is_none(option_map) THEN {}
       ELSE LET map == unwrap(option_map)
            IN {<<k, unwrap(get(map[k], o.states))>> :
                   k \in {x \in DOMAIN map : is_some(get(map[x], o.states))}}

\* OverlayedChangeSet::iter_values
iter_values(o, storage_key) == {<<kv[1], kv[2].value>> : kv \in iter_overlay(o, storage_key)}

\* OverlayedChangeSet::children_iter: keyspace -> the (key, value) pairs it yields
children_iter(o) ==
    [keyspace \in DOMAIN o.children |->
        LET child == o.children[keyspace]
        IN {<<k, unwrap(get(child[k], o.states)).value>> :
               k \in {x \in DOMAIN child : is_some(get(child[x], o.states))}}]

\* OverlayedChangeSet::top_prospective: key -> OverlayedValue of the latest entry
\* at or above the committed cursor
top_prospective(o) ==
    [k \in {x \in DOMAIN o.top : is_some(get_prospective(o.top[x], o.states, o.committed))} |->
        unwrap(get_prospective(o.top[k], o.states, o.committed))]

\* OverlayedChangeSet::top_committed: key -> OverlayedValue of the latest entry
\* strictly below the committed cursor
top_committed(o) ==
    [k \in {x \in DOMAIN o.top : is_some(get_committed(o.top[x], o.states, o.committed))} |->
        unwrap(get_committed(o.top[k], o.states, o.committed))]

\* slip: the entry read is the visible one, whatever the committed cursor
into_committed_slip(o) ==
    LET pairs(map) == {<<k, unwrap(get(map[k], o.states)).value>> :
                          k \in {x \in DOMAIN map : is_some(get(map[x], o.states))}}
    IN [top |-> pairs(o.top),
        children |-> [sk \in DOMAIN o.children |-> pairs(o.children[sk])]]

\* OverlayedChanges::into_committed: the (key, value) pairs of the top map and,
\* per child namespace, the (key, value) pairs of its map
into_committed(o) ==
    LET pairs(map) ==
            {<<k, unwrap(History_into_committed(map[k], o.states, o.committed)).value>> :
                k \in {x \in DOMAIN map :
                          is_some(History_into_committed(map[x], o.states, o.committed))}}
    IN [top |-> pairs(o.top),
        children |-> [sk \in DOMAIN o.children |-> pairs(o.children[sk])]]

\* everything a caller can read: storage, child_storage and iter_values
Observe(o) ==
    [storage |-> TopView(o),
     child_storage |-> ChildView(o),
     iter_top |-> iter_values(o, None),
     iter_child |-> [sk \in StorageKeys |-> iter_values(o, Some(sk))]]

----------------------------------------------------------------------------
(* Calls: a call is the tuple <<name, arguments...>> *)

WriteCalls ==
    {"set_storage", "set_child_storage", "clear_child_storage", "clear_prefix",
     "clear_child_prefix"}

Apply(o, c) ==
    CASE c[1] = "set_storage" -> set_storage(o, c[2], c[3])
      [] c[1] = "set_child_storage" -> set_child_storage(o, c[2], c[3], c[4])
      [] c[1] = "clear_child_storage" -> clear_child_storage(o, c[2])
      [] c[1] = "clear_prefix" -> clear_prefix(o, c[2])
      [] c[1] = "clear_child_prefix" -> clear_child_prefix(o, c[2], c[3])
      [] c[1] = "start_transaction" -> start_transaction(o)
      [] c[1] = "commit_transaction" -> commit_transaction(o)
      [] c[1] = "discard_transaction" -> discard_transaction(o)
      [] c[1] = "commit_prospective" -> commit_prospective(o)
      [] c[1] = "discard_prospective" -> discard_prospective(o)
      [] c[1] = "gc" -> gc(o, c[2])
      [] c[1] = "set_changes_trie_config" -> set_changes_trie_config(o, c[2])
      [] c[1] = "remove_changes_trie_config" -> remove_changes_trie_config(o)

\* the top keys the call writes to, and the value it writes
WrittenTop(o, c) ==
    CASE c[1] = "set_storage" -> {c[2]}
      [] c[1] = "clear_prefix" -> {k \in DOMAIN o.top : starts_with(k, c[2])}
      [] OTHER -> {}
WrittenValue(c) == IF c[1] = "set_storage" THEN c[3] ELSE None

\* the calls that append a layer to the ledger
BoundaryCalls ==
    {"start_transaction", "commit_transaction", "discard_transaction",
     "commit_prospective", "discard_prospective"}

----------------------------------------------------------------------------
(* Reference semantics of the claims: one map of writes per open layer.    *)
(* writes[1] holds what commit_prospective made durable, writes[2] the     *)
(* prospective writes outside any transaction, writes[3..] those of the    *)
(* transactions opened by start_transaction and still outstanding.  An     *)
(* entry is None (no write) or Some(value written).                        *)

NoWrites == [k \in Keys |-> None]
Merge(below, above) == [k \in Keys |-> IF is_some(above[k]) THEN above[k] ELSE below[k]]
RECURSIVE MergeAll(_)
MergeAll(w) == IF Len(w) = 1 THEN w[1] ELSE Merge(MergeAll(SubSeq(w, 1, Len(w) - 1)), w[Len(w)])
Pop(w) == SubSeq(w, 1, Len(w) - 1)

WritesApply(w, c, written) ==
    CASE c[1] \in {"set_storage", "clear_prefix"} ->
            [w EXCEPT ![Len(w)] =
                [k \in Keys |-> IF k \in written THEN Some(WrittenValue(c)) ELSE @[k]]]
      [] c[1] = "start_transaction" -> Append(w, NoWrites)
      [] c[1] = "discard_transaction" ->
            IF Len(w) > 2 THEN Pop(w) ELSE <<w[1], NoWrites>>
      [] c[1] = "commit_transaction" ->
            IF Len(w) > 2
            THEN [Pop(w) EXCEPT ![Len(w) - 1] = Merge(@, w[Len(w)])]
            ELSE w
      [] c[1] = "commit_prospective" -> <<MergeAll(w), NoWrites>>
      [] c[1] = "discard_prospective" -> <<w[1], NoWrites>>
      [] OTHER -> w

\* the most recent write to each key that no discard has covered
WritesView(w) == MergeAll(w)

\* The extrinsic indices of the writes, kept the same way: open[1] holds, per
\* key, the indices of the writes commit_prospective made durable, open[2]
\* those of the prospective writes outside any transaction, open[3..] those of
\* the outstanding transactions; dropped those of the writes a discard covered.
NoIndices == [k \in Keys |-> {}]
Join(below, above) == [k \in Keys |-> below[k] \cup above[k]]
RECURSIVE JoinAll(_)
JoinAll(w) == IF Len(w) = 0 THEN NoIndices ELSE Join(JoinAll(Pop(w)), w[Len(w)])

UnderApply(u, c, written, ext) ==
    CASE c[1] \in {"set_storage", "clear_prefix"} ->
            IF is_some(ext)
            THEN [u EXCEPT !.open[Len(u.open)] =
                     [k \in Keys |-> IF k \in written THEN @[k] \cup {unwrap(ext)} ELSE @[k]]]
            ELSE u
      [] c[1] = "start_transaction" -> [u EXCEPT !.open = Append(@, NoIndices)]
      [] c[1] = "discard_transaction" ->
            [open |-> IF Len(u.open) > 2 THEN Pop(u.open) ELSE <<u.open[1], NoIndices>>,
             dropped |-> Join(u.dropped, u.open[Len(u.open)])]
      [] c[1] = "commit_transaction" ->
            IF Len(u.open) > 2
            THEN [u EXCEPT !.open = [Pop(u.open) EXCEPT ![Len(u.open) - 1] =
                                        Join(@, u.open[Len(u.open)])]]
            ELSE u
      [] c[1] = "commit_prospective" -> [u EXCEPT !.open = <<JoinAll(u.open), NoIndices>>]
      [] c[1] = "discard_prospective" ->
            [open |-> <<u.open[1], NoIndices>>,
             dropped |-> Join(u.dropped, JoinAll(SubSeq(u.open, 2, Len(u.open))))]
      [] OTHER -> u

----------------------------------------------------------------------------
(* State *)

VARIABLES
    overlayed,   \* the OverlayedChanges instance
    last,        \* the last call made on it and what it returned
    writes,      \* the writes made so far that no discard has covered
    snap,        \* storage(k) of every key right after the last commit_prospective
    childsnap,   \* child_storage(sk, k) of every child key at that moment
    txview,      \* Some(storage of every key just before start_transaction) while
                 \* only writes have followed that start_transaction
    layer,       \* per key, the writes made under a changes-trie configuration
                 \* since the topmost layer was appended
    under,       \* per key, the extrinsic indices of the writes no discard has
                 \* covered, and of the writes a discard has covered
    spaces,      \* the spaces a key was written in by set_storage (None) or by
                 \* set_child_storage (Some(storage_key))
    nwrites,     \* number of write calls made so far
    twin,        \* a second instance, given the same calls but for the one compared
    phase,       \* where the run stands with respect to the call compared
    scope        \* which calls and inputs the run explores; fixed by Init

vars == <<overlayed, last, writes, snap, childsnap, txview, layer, under, spaces, nwrites,
          twin, phase, scope>>

TwinScopes == {"commit", "gc"}

\* the values a run of the scope writes to the key
ValuesOf(sc, key) ==
    CASE sc = "core" -> IF key = EXTRINSIC_INDEX THEN {None, Some(Encode(0))}
                        ELSE {None, Some(<<7>>), Some(<<8>>)}
      [] sc = "commit" -> IF key = EXTRINSIC_INDEX THEN {Some(Encode(0))}
                          ELSE {None, Some(<<7>>)}
      [] sc \in {"gc", "collect"} ->
            IF key = EXTRINSIC_INDEX THEN {} ELSE {None, Some(<<7>>)}
      \* a tombstone costs one operation, four bytes cost two
      [] sc = "trigger" -> IF key = EXTRINSIC_INDEX THEN {} ELSE {None, Some(Encode(0))}
      [] sc = "config" -> IF key = EXTRINSIC_INDEX
                          THEN {None, Some(<<7>>), Some(Encode(0))}
                          ELSE {None, Some(<<7>>)}
      [] sc = "extrinsics" -> IF key = EXTRINSIC_INDEX
                              THEN {Some(Encode(0)), Some(Encode(2))}
                              ELSE {None, Some(<<7>>)}

\* the write calls a run of the scope makes, and the layers it reaches: a run
\* about extrinsic sets needs more writes (the index is itself written) and
\* fewer layers
WriteBudget(sc) == IF sc = "extrinsics" THEN MaxWrites + 2 ELSE MaxWrites
LayerBudget(sc) == IF sc = "extrinsics" THEN MaxLayers - 1 ELSE MaxLayers

NoLayerWrites == [k \in Keys |-> [n |-> 0, indices |-> {}, base |-> {}, value |-> None]]

\* the entry a write to the key starts from: the latest entry of a layer not Dropped
Current(o, key) ==
    IF key \in DOMAIN o.top THEN get_mut(o.top[key], o.states) ELSE None

LayerApply(l, o, o2, c, written) ==
    IF o2.states # o.states THEN NoLayerWrites
    ELSE IF is_none(extrinsic_index(o)) THEN l
    ELSE [k \in Keys |->
            IF k \notin written THEN l[k]
            ELSE [n |-> IF l[k].n < 2 THEN l[k].n + 1 ELSE 2,
                  indices |-> l[k].indices \cup {unwrap(extrinsic_index(o))},
                  base |-> IF l[k].n > 0 THEN l[k].base
                           ELSE IF is_some(Current(o, k))
                                   /\ unwrap(Current(o, k)).index < Len(o.states) - 1
                                THEN ExtrinsicsOf(unwrap(Current(o, k)).value)
                                ELSE {},
                  value |-> Some(WrittenValue(c))]]

Last(o, c, w, tv) ==
    [call |-> IF c[1] \in WriteCalls THEN <<c[1]>> ELSE c,
     outermost |-> c[1] = "discard_transaction" /\ Len(w) = 2,
     expect |-> IF c[1] = "discard_transaction" THEN tv ELSE None,
     discarded |-> IF c[1] = "discard_transaction"
                   THEN {k \in Keys : is_some(w[Len(w)][k])} ELSE {},
     ret |-> IF c[1] = "set_changes_trie_config"
             THEN set_changes_trie_config_result(o, c[2]) ELSE TRUE,
     pruned |-> c[1] = "gc" /\ gc(o, c[2]) # o]

\* the space the call writes a key in: clears write to the keys already there
WrittenSpace(c) ==
    CASE c[1] = "set_storage" -> {None}
      [] c[1] = "set_child_storage" -> {Some(c[2])}
      [] OTHER -> {}

Guard(c) ==
    /\ c[1] \in WriteCalls => nwrites < WriteBudget(scope)
    \* a run about extrinsic sets writes with a configuration installed
    /\ (c[1] \in WriteCalls /\ scope = "extrinsics") =>
          is_some(overlayed.changes_trie_config)
    \* and installs it once
    /\ (c[1] = "set_changes_trie_config" /\ scope = "extrinsics") =>
          is_none(overlayed.changes_trie_config)
    \* a run about the configuration installs it when there is none and removes
    \* the one installed
    /\ (c[1] = "set_changes_trie_config" /\ scope = "config") =>
          is_none(overlayed.changes_trie_config) /\ c[2] = ConfigA
    /\ c[1] = "remove_changes_trie_config" => is_some(overlayed.changes_trie_config)
    /\ c[1] \in BoundaryCalls => Len(overlayed.states) < LayerBudget(scope)
    \* between the start and the commit of the transaction compared, only writes
    /\ phase = "inside" => c[1] \in WriteCalls
    \* the runtime installs its configuration, ConfigA, before it writes; a run
    \* about the configuration installs and removes it at any moment
    /\ (c[1] = "set_changes_trie_config" /\ is_none(overlayed.changes_trie_config)
            /\ scope # "config") =>
          nwrites = 0 /\ c[2] = ConfigA

Do(c) ==
    /\ Guard(c)
    /\ overlayed' = Apply(overlayed, c)
    /\ last' = Last(overlayed, c, writes, txview)
    /\ nwrites' = IF c[1] \in WriteCalls THEN nwrites + 1 ELSE nwrites
    /\ scope' = scope
    /\ phase' = phase
    /\ twin' = IF scope \in TwinScopes THEN Apply(twin, c) ELSE twin
    /\ IF scope = "core"
       THEN /\ writes' = WritesApply(writes, c, WrittenTop(overlayed, c))
            /\ snap' = IF c[1] = "commit_prospective" THEN TopView(overlayed') ELSE snap
            /\ txview' = CASE c[1] = "start_transaction" -> Some(TopView(overlayed))
                           [] c[1] \in WriteCalls -> txview
                           [] OTHER -> None
       ELSE /\ UNCHANGED <<writes, txview>>
            /\ snap' = IF scope = "collect" /\ c[1] = "commit_prospective"
                       THEN TopView(overlayed') ELSE snap
    /\ childsnap' = IF scope = "collect" /\ c[1] = "commit_prospective"
                    THEN ChildView(overlayed') ELSE childsnap
    /\ IF scope = "extrinsics"
       THEN /\ layer' = LayerApply(layer, overlayed, overlayed', c, WrittenTop(overlayed, c))
            /\ under' = UnderApply(under, c, WrittenTop(overlayed, c),
                                   extrinsic_index(overlayed))
       ELSE UNCHANGED <<layer, under>>
    /\ spaces' = IF scope = "collect" THEN spaces \cup WrittenSpace(c) ELSE spaces

InitScope(sc) ==
    /\ scope = sc
    /\ overlayed = Default(FALSE)
    /\ last = Last(overlayed, <<"default">>, <<>>, None)
    /\ writes = <<NoWrites, NoWrites>>
    /\ snap = TopView(overlayed)
    /\ childsnap = ChildView(overlayed)
    /\ txview = None
    /\ layer = NoLayerWrites
    /\ under = [open |-> <<NoIndices, NoIndices>>, dropped |-> NoIndices]
    /\ spaces = {}
    /\ nwrites = 0
    /\ twin = Default(FALSE)
    /\ phase = IF sc \in TwinScopes THEN "before" ELSE "none"

SetStorage ==
    \E key \in Keys : \E value \in ValuesOf(scope, key) : Do(<<"set_storage", key, value>>)
SetChildStorage ==
    \E storage_key \in StorageKeys, key \in ChildKeys, value \in ChildValues :
        Do(<<"set_child_storage", storage_key, key, value>>)
ClearChildStorage == \E storage_key \in StorageKeys : Do(<<"clear_child_storage", storage_key>>)
ClearPrefix == \E prefix \in Prefixes : Do(<<"clear_prefix", prefix>>)
ClearChildPrefix ==
    \E storage_key \in StorageKeys, prefix \in Prefixes :
        Do(<<"clear_child_prefix", storage_key, prefix>>)
StartTransaction == Do(<<"start_transaction">>)
CommitTransaction == Do(<<"commit_transaction">>)
DiscardTransaction == Do(<<"discard_transaction">>)
CommitProspective == Do(<<"commit_prospective">>)
DiscardProspective == Do(<<"discard_prospective">>)
Gc == \E eager \in BOOLEAN : Do(<<"gc", eager>>)
SetChangesTrieConfig == \E config \in Configs : Do(<<"set_changes_trie_config", config>>)
RemoveChangesTrieConfig == Do(<<"remove_changes_trie_config">>)

\* Spec: the top-level storage under every boundary call, with explicit and
\* amortized garbage collection
Init == InitScope("core")

Next ==
    \/ SetStorage
    \/ ClearPrefix
    \/ StartTransaction
    \/ CommitTransaction
    \/ DiscardTransaction
    \/ CommitProspective
    \/ DiscardProspective
    \/ SetChangesTrieConfig

Spec == Init /\ [][Next]_vars

\* SpecExtrinsics: the extrinsic sets of the writes made under a configuration
InitExtrinsics == InitScope("extrinsics")

NextExtrinsics ==
    \/ SetStorage
    \/ StartTransaction
    \/ CommitTransaction
    \/ DiscardTransaction
    \/ CommitProspective
    \/ DiscardProspective
    \/ SetChangesTrieConfig

SpecExtrinsics == InitExtrinsics /\ [][NextExtrinsics]_vars

\* SpecConfig: top and child writes with the configuration installed and
\* removed at any moment
InitConfig == InitScope("config")

NextConfig ==
    \/ SetStorage
    \/ SetChildStorage
    \/ ClearChildStorage
    \/ ClearPrefix
    \/ ClearChildPrefix
    \/ StartTransaction
    \/ DiscardTransaction
    \/ SetChangesTrieConfig
    \/ RemoveChangesTrieConfig

SpecConfig == InitConfig /\ [][NextConfig]_vars

\* SpecTrigger: the amortized collection, under either value of the policy
\* flag not_eager_gc (a pub(crate) field), with writes of cost one and two
InitTrigger ==
    /\ scope = "trigger"
    /\ \E not_eager_gc \in BOOLEAN : overlayed = Default(not_eager_gc)
    /\ last = Last(overlayed, <<"default">>, <<>>, None)
    /\ writes = <<NoWrites, NoWrites>>
    /\ snap = TopView(overlayed)
    /\ childsnap = ChildView(overlayed)
    /\ txview = None
    /\ layer = NoLayerWrites
    /\ under = [open |-> <<NoIndices, NoIndices>>, dropped |-> NoIndices]
    /\ spaces = {}
    /\ nwrites = 0
    /\ twin = Default(FALSE)
    /\ phase = "none"

NextTrigger ==
    \/ SetStorage
    \/ SetChildStorage
    \/ ClearPrefix
    \/ StartTransaction
    \/ CommitTransaction
    \/ DiscardTransaction
    \/ CommitProspective
    \/ DiscardProspective
    \/ Gc

SpecTrigger == InitTrigger /\ [][NextTrigger]_vars

\* a call made on the instance and not on its twin
Alone(c, after) ==
    /\ overlayed' = Apply(overlayed, c)
    /\ last' = Last(overlayed, c, writes, txview)
    /\ phase' = after
    /\ UNCHANGED <<writes, snap, childsnap, txview, layer, under, spaces, nwrites, twin,
                   scope>>

\* SpecCommit: the instance runs start_transaction(); W; commit_transaction()
\* where its twin runs W alone; every other call is made on both
InitCommit == InitScope("commit")

TransparentStart ==
    /\ phase = "before"
    /\ Len(overlayed.states) + 1 < LayerBudget(scope)
    /\ Alone(<<"start_transaction">>, "inside")

TransparentCommit ==
    /\ phase = "inside"
    /\ Alone(<<"commit_transaction">>, "after")

NextCommit ==
    \/ SetStorage
    \/ ClearPrefix
    \/ StartTransaction
    \/ CommitTransaction
    \/ DiscardTransaction
    \/ CommitProspective
    \/ DiscardProspective
    \/ SetChangesTrieConfig
    \/ TransparentStart
    \/ TransparentCommit

SpecCommit == InitCommit /\ [][NextCommit]_vars

\* SpecCollect: top and child storage under every boundary call and explicit gc
InitCollect == InitScope("collect")

NextCollect ==
    \/ SetStorage
    \/ SetChildStorage
    \/ ClearChildStorage
    \/ ClearPrefix
    \/ ClearChildPrefix
    \/ StartTransaction
    \/ CommitTransaction
    \/ DiscardTransaction
    \/ CommitProspective
    \/ DiscardProspective
    \/ Gc

SpecCollect == InitCollect /\ [][NextCollect]_vars

\* SpecGc: the instance makes one gc call that its twin does not make; every
\* other call, explicit gc included, is made on both
InitGc == InitScope("gc")

GcAlone ==
    /\ phase = "before"
    /\ \E eager \in BOOLEAN : Alone(<<"gc", eager>>, "after")

NextGc ==
    \/ SetStorage
    \/ SetChildStorage
    \/ ClearChildStorage
    \/ ClearPrefix
    \/ ClearChildPrefix
    \/ StartTransaction
    \/ CommitTransaction
    \/ DiscardTransaction
    \/ CommitProspective
    \/ DiscardProspective
    \/ Gc
    \/ GcAlone

SpecGc == InitGc /\ [][NextGc]_vars

----------------------------------------------------------------------------
(* Claims *)

\* some entry of the key's history belongs to a Dropped layer at or above `from`
HasDropped(o, key, from) ==
    /\ key \in DOMAIN o.top
    /\ \E i \in 1..Len(o.top[key]) :
          /\ o.top[key][i].index >= from
          /\ Mark(o.states, o.top[key][i].index) = "Dropped"

\* C1 (visibility): after any sequence of writes and boundary calls, storage(k)
\* returns for every key the value of the most recent write to k that no
\* discard_transaction or discard_prospective has covered, and None (unknown)
\* when there is no such write.
C1_Visibility == \A k \in Keys : storage(overlayed, k) = WritesView(writes)[k]

\* a discard_transaction inside a still open outer transaction has dropped a
\* write to Key1 and an older write to it is visible again
C1_Witness ==
    /\ last.call = <<"discard_transaction">>
    /\ Len(writes) >= 3
    /\ Key1 \in last.discarded
    /\ is_some(storage(overlayed, Key1))
    /\ C1_Visibility

\* C2 (commit durability): a key that has no write left after the last
\* commit_prospective (never written since, or every such write discarded) reads
\* what it read right after that commit_prospective: discards revert only the
\* writes made after it.
C2_CommitDurability ==
    \A k \in Keys :
        (\A i \in 2..Len(writes) : is_none(writes[i][k])) => storage(overlayed, k) = snap[k]

\* Key1 was committed with a value, written again, and a discard has brought
\* the committed value back
C2_Witness ==
    /\ last.call[1] \in {"discard_transaction", "discard_prospective"}
    /\ overlayed.committed > 0
    /\ is_some(snap[Key1]) /\ is_some(unwrap(snap[Key1]))
    /\ HasDropped(overlayed, Key1, overlayed.committed)
    /\ \A i \in 2..Len(writes) : is_none(writes[i][Key1])
    /\ storage(overlayed, Key1) = snap[Key1]

\* C3 (transaction discard reverts): start_transaction(); W; discard_transaction(),
\* W any sequence of set_storage / clear calls, leaves storage(k) of every key as
\* it was just before start_transaction().
C3_DiscardTransactionReverts ==
    (last.call = <<"discard_transaction">> /\ is_some(last.expect)) =>
        TopView(overlayed) = unwrap(last.expect)

\* W wrote Key1 in the transaction (its entry sits in the layer just dropped)
\* and Key1 had a value before
C3_Witness ==
    /\ last.call = <<"discard_transaction">>
    /\ is_some(last.expect)
    /\ Key1 \in last.discarded
    /\ is_some(unwrap(last.expect)[Key1])
    /\ storage(overlayed, Key1) = unwrap(last.expect)[Key1]

\* C7 (discard_transaction outside any transaction): the call does not fail and
\* is observably discard_prospective: what storage returns afterwards is what it
\* would return after discard_prospective, which is what it returned right after
\* the last commit_prospective.
C7_DiscardOutermost ==
    [][(last'.call = <<"discard_transaction">> /\ last'.outermost) =>
          /\ Observe(overlayed') = Observe(discard_prospective(overlayed))
          /\ TopView(overlayed') = snap]_vars

\* outside any transaction, discard_transaction has dropped a write to Key1 made
\* after a commit_prospective that had given Key1 a value
C7_Witness ==
    /\ last.call = <<"discard_transaction">>
    /\ last.outermost
    /\ overlayed.committed > 0
    /\ HasDropped(overlayed, Key1, overlayed.committed)
    /\ is_some(snap[Key1])
    /\ storage(overlayed, Key1) = snap[Key1]

\* C8 (the changes-trie configuration is write-once): on an instance without
\* configuration the call returns true and installs its argument; with an equal
\* configuration installed it returns true and changes nothing; with a different
\* one installed it returns false and changes nothing.
C8_ConfigWriteOnce ==
    [][last'.call[1] = "set_changes_trie_config" =>
          LET config == last'.call[2]
              old == overlayed.changes_trie_config
          IN /\ is_none(old) =>
                   /\ last'.ret
                   /\ overlayed' = [overlayed EXCEPT !.changes_trie_config = Some(config)]
             /\ old = Some(config) => last'.ret /\ overlayed' = overlayed
             /\ (is_some(old) /\ old # Some(config)) => ~last'.ret /\ overlayed' = overlayed]_vars

\* ConfigB has been refused on an instance that holds ConfigA and writes
C8_Witness ==
    /\ last.call = <<"set_changes_trie_config", ConfigB>>
    /\ ~last.ret
    /\ overlayed.changes_trie_config = Some(ConfigA)
    /\ nwrites > 0

\* the entry of the topmost layer in the history of a key written in it
LayerEntry(o, k) == o.top[k][Len(o.top[k])]
LayerEntries(o, k) ==
    {i \in 1..Len(o.top[k]) : o.top[k][i].index = Len(o.states) - 1}

\* C9 as stated (extrinsic accumulation within a layer): a key written several
\* times while the same layer is the topmost one keeps a single entry for that
\* layer, holding the last value written and, as extrinsic set, the set of the
\* extrinsic indices current at those writes.
C9_LayerSetIsIndicesWritten ==
    \A k \in Keys : layer[k].n >= 2 =>
        /\ k \in DOMAIN overlayed.top
        /\ LayerEntry(overlayed, k).index = Len(overlayed.states) - 1
        /\ Cardinality(LayerEntries(overlayed, k)) = 1
        /\ LayerEntry(overlayed, k).value.value = unwrap(layer[k].value)
        /\ LayerEntry(overlayed, k).value.extrinsics = Some(layer[k].indices)

\* C9 amended: the single entry of the layer holds the last value written and,
\* as extrinsic set, the indices current at the writes made in the layer
\* together with the set of the entry the first of these writes started from.
C9_LayerSetAccumulates ==
    \A k \in Keys : layer[k].n >= 2 =>
        /\ k \in DOMAIN overlayed.top
        /\ LayerEntry(overlayed, k).index = Len(overlayed.states) - 1
        /\ Cardinality(LayerEntries(overlayed, k)) = 1
        /\ LayerEntry(overlayed, k).value.value = unwrap(layer[k].value)
        /\ LayerEntry(overlayed, k).value.extrinsics =
                Some(layer[k].base \cup layer[k].indices)

\* Key1 written twice in the topmost layer, under the indices 0 and 2
C9_Witness ==
    /\ layer[Key1].n = 2
    /\ layer[Key1].indices = {Encode(0), Encode(2)}
    /\ LayerEntry(overlayed, Key1).value.extrinsics = Some({Encode(0), Encode(2)})

\* a write call appends an entry to the history of k, whose latest entry not
\* Dropped belongs to an earlier layer, with a configuration installed
Appends(k) ==
    /\ last'.call = <<"set_storage">>
    /\ is_some(extrinsic_index(overlayed))
    /\ is_some(Current(overlayed, k))
    /\ unwrap(Current(overlayed, k)).index < Len(overlayed.states) - 1
    /\ overlayed'.top[k] # overlayed.top[k]

\* C10 as stated (fresh extrinsic set on a new layer): the entry appended has
\* exactly the current extrinsic index as extrinsic set.
C10_AppendedSetIsFresh ==
    [][\A k \in Keys : Appends(k) =>
          /\ LayerEntry(overlayed', k).index = Len(overlayed.states) - 1
          /\ LayerEntry(overlayed', k).value.extrinsics =
                Some({unwrap(extrinsic_index(overlayed))})]_vars

\* C10 amended: the entry appended has as extrinsic set the set of the older
\* entry, copied, with the current extrinsic index added.
C10_AppendedSetIsCopied ==
    [][\A k \in Keys : Appends(k) =>
          /\ LayerEntry(overlayed', k).index = Len(overlayed.states) - 1
          /\ LayerEntry(overlayed', k).value.extrinsics =
                Some(ExtrinsicsOf(unwrap(Current(overlayed, k)).value)
                        \cup {unwrap(extrinsic_index(overlayed))})]_vars

\* the first write to Key1 after a commit_prospective, under another index than
\* the committed write: the history has the committed entry and the new one
C10_Witness ==
    /\ last.call = <<"set_storage">>
    /\ overlayed.committed > 0
    /\ layer[Key1].n = 1
    /\ layer[Key1].base # {}
    /\ ~(layer[Key1].indices \subseteq layer[Key1].base)
    /\ Len(overlayed.top[Key1]) >= 2
    /\ LayerEntry(overlayed, Key1).value.extrinsics =
            Some(layer[Key1].base \cup layer[Key1].indices)

\* C4 (transaction commit is transparent): once the instance has run
\* start_transaction(); W; commit_transaction() where its twin ran W alone,
\* storage returns the same for every key on both, right away and after any
\* calls made on both since.
C4_CommitTransparent ==
    phase = "after" => TopView(overlayed) = TopView(twin)

\* C5 (garbage collection is invisible): once the instance has made a gc call
\* its twin did not make, storage, child_storage and iter_values return the same
\* on both, right away and after any calls made on both since.
C5_GcInvisible ==
    phase = "after" => Observe(overlayed) = Observe(twin)

\* C6 (garbage collection is idempotent): right after a gc(e) call, a second
\* gc(e) leaves the ledger, the top map, every child map and every history as
\* the first call left them.
C6_GcIdempotent ==
    last.call[1] = "gc" => gc(overlayed, last.call[2]) = overlayed

\* the first gc call removed entries
C6_Witness ==
    /\ last.call[1] = "gc"
    /\ last.pruned
    /\ gc(overlayed, last.call[2]) = overlayed

\* a set_storage call writes k, which has a committed entry and no prospective
\* one, with a configuration installed
FirstWriteSinceCommit(k) ==
    /\ last'.call = <<"set_storage">>
    /\ is_some(extrinsic_index(overlayed))
    /\ k \in DOMAIN top_committed(overlayed)
    /\ k \notin DOMAIN top_prospective(overlayed)
    /\ overlayed'.top[k] # overlayed.top[k]

\* C11 (extrinsic sets carry over a prospective commit): the first write to a
\* key that has a committed entry makes a prospective entry whose extrinsic set
\* is the committed entry's set with the current extrinsic index added; the
\* committed entry keeps its own.
C11_CommittedSetCarriesOver ==
    [][\A k \in Keys : FirstWriteSinceCommit(k) =>
          /\ k \in DOMAIN top_prospective(overlayed')
          /\ top_prospective(overlayed')[k].extrinsics =
                Some(ExtrinsicsOf(top_committed(overlayed)[k])
                        \cup {unwrap(extrinsic_index(overlayed))})
          /\ top_committed(overlayed')[k] = top_committed(overlayed)[k]]_vars

\* Key1 committed under one index and written once since under another: the
\* prospective entry holds both
C11_Witness ==
    /\ last.call = <<"set_storage">>
    /\ Key1 \in DOMAIN top_committed(overlayed)
    /\ Key1 \in DOMAIN top_prospective(overlayed)
    /\ layer[Key1].n = 1
    /\ ExtrinsicsOf(top_committed(overlayed)[Key1]) # {}
    /\ ExtrinsicsOf(top_prospective(overlayed)[Key1]) =
            ExtrinsicsOf(top_committed(overlayed)[Key1]) \cup layer[Key1].indices
    /\ ExtrinsicsOf(top_prospective(overlayed)[Key1]) #
            ExtrinsicsOf(top_committed(overlayed)[Key1])

\* key -> OverlayedValue of the entry a read resolves, for the top keys that
\* have one
VisibleTop(o) ==
    [k \in {x \in DOMAIN o.top : is_some(get(o.top[x], o.states))} |->
        unwrap(get(o.top[k], o.states))]

\* C12 (the committed view is frozen between prospective commits): no call but
\* commit_prospective changes what top_committed returns (value and extrinsic
\* set of every key); commit_prospective makes it the view that was visible
\* just before the call and leaves top_prospective empty.
C12_CommittedViewFrozen ==
    [][/\ last'.call[1] # "commit_prospective" =>
            top_committed(overlayed') = top_committed(overlayed)
       /\ last'.call[1] = "commit_prospective" =>
            /\ top_committed(overlayed') = VisibleTop(overlayed)
            /\ DOMAIN top_prospective(overlayed') = {}]_vars

\* inside a transaction opened after a commit_prospective, Key1 has been
\* written again: the committed view still shows the committed value
C12_Witness ==
    /\ last.call[1] \in WriteCalls
    /\ overlayed.committed > 0
    /\ Len(overlayed.states) > overlayed.committed + 1
    /\ Key1 \in DOMAIN top_committed(overlayed)
    /\ Key1 \in DOMAIN top_prospective(overlayed)
    /\ snap[Key1] = Some(top_committed(overlayed)[Key1].value)
    /\ top_prospective(overlayed)[Key1].value # top_committed(overlayed)[Key1].value

\* the history of the key in the top map (storage_key None) or in a child map,
\* empty when the key is not in the map
HistoryOf(o, storage_key, key) ==
    IF is_none(storage_key)
    THEN IF key \in DOMAIN o.top THEN o.top[key] ELSE <<>>
    ELSE IF unwrap(storage_key) \in DOMAIN o.children
            /\ key \in DOMAIN o.children[unwrap(storage_key)]
         THEN o.children[unwrap(storage_key)][key]
         ELSE <<>>

\* C13 as stated (unknown only without any entry): whenever the history of a
\* key holds at least one entry, storage / child_storage return known-deleted or
\* known-value.
C13_KnownWheneverEntry ==
    /\ \A k \in Keys : HistoryOf(overlayed, None, k) # <<>> => is_some(storage(overlayed, k))
    /\ \A sk \in StorageKeys, k \in ChildKeys :
          HistoryOf(overlayed, Some(sk), k) # <<>> => is_some(child_storage(overlayed, sk, k))

\* C13 amended: storage / child_storage return unknown exactly when the history
\* of the key holds no entry of a layer that is not Dropped; the entries of
\* discarded layers stay in the history until they are pruned and do not count.
C13_UnknownIffNoLiveEntry ==
    /\ \A k \in Keys :
          is_none(storage(overlayed, k)) <=>
              Live(HistoryOf(overlayed, None, k), overlayed.states) = {}
    /\ \A sk \in StorageKeys, k \in ChildKeys :
          is_none(child_storage(overlayed, sk, k)) <=>
              Live(HistoryOf(overlayed, Some(sk), k), overlayed.states) = {}

\* a top key and a child key whose only entries were discarded read unknown,
\* their histories still holding the entries
C13_Witness ==
    /\ HistoryOf(overlayed, None, Key1) # <<>>
    /\ is_none(storage(overlayed, Key1))
    /\ \E sk \in StorageKeys :
          /\ HistoryOf(overlayed, Some(sk), Key1) # <<>>
          /\ is_none(child_storage(overlayed, sk, Key1))

\* every entry held, as <<map, key, entry>>: map is None for the top map
EntriesOf(o) ==
    UNION {{<<None, k, o.top[k][i]>> : i \in 1..Len(o.top[k])} : k \in DOMAIN o.top}
    \cup UNION {UNION {{<<Some(sk), k, o.children[sk][k][i]>> :
                            i \in 1..Len(o.children[sk][k])} :
                        k \in DOMAIN o.children[sk]} :
                 sk \in DOMAIN o.children}

\* C14 (no extrinsic set without a configuration): an entry a call stores
\* (appended or rewritten in place) has an extrinsic set only when the call is
\* a write made with a configuration installed; every entry stored by a write
\* made without one has extrinsics None.
C14_NoSetWithoutConfig ==
    [][\A e \in EntriesOf(overlayed') \ EntriesOf(overlayed) :
          is_some(e[3].value.extrinsics) =>
              /\ last'.call[1] \in WriteCalls
              /\ is_some(overlayed.changes_trie_config)]_vars

\* Key1 was written with a configuration installed, then, in a later layer,
\* once the configuration was removed: the older entry has a set, the last none
C14_Witness ==
    /\ last.call[1] \in WriteCalls
    /\ is_none(overlayed.changes_trie_config)
    /\ Key1 \in DOMAIN overlayed.top
    /\ Len(overlayed.top[Key1]) = 2
    /\ is_some(overlayed.top[Key1][1].value.extrinsics)
    /\ is_none(overlayed.top[Key1][2].value.extrinsics)
    /\ overlayed.top[Key1][2].index = Len(overlayed.states) - 1

\* with a configuration installed, the extrinsic-index key resolves to no value
\* (no entry, all entries discarded, or a tombstone) or to bytes that do not
\* decode to a u32
SentinelCase(o) ==
    /\ is_some(o.changes_trie_config)
    /\ LET idx == storage(o, EXTRINSIC_INDEX)
       IN \/ is_none(idx)
          \/ is_none(unwrap(idx))
          \/ is_none(Decode(unwrap(unwrap(idx))))

KnownPairs(view) == {<<k, unwrap(view[k])>> : k \in {x \in DOMAIN view : is_some(view[x])}}

\* C16 (into_committed yields exactly the committed contents): for the top map
\* and for every child namespace, into_committed returns one pair per key that
\* was visible right after the last commit_prospective, with the value it had
\* then, and nothing for the writes made since (pending, in a transaction
\* committed since, or discarded).
C16_IntoCommitted ==
    /\ into_committed(overlayed).top = KnownPairs(snap)
    /\ \A sk \in StorageKeys :
          IF sk \in DOMAIN overlayed.children
          THEN into_committed(overlayed).children[sk] = KnownPairs(childsnap[sk])
          ELSE KnownPairs(childsnap[sk]) = {}

\* Key1 was committed and a child key has been written since: into_committed
\* yields the pair of Key1 and, for the child namespace, no pair
C16_Witness ==
    /\ overlayed.committed > 0
    /\ into_committed(overlayed).top = {<<Key1, Some(<<7>>)>>}
    /\ \E sk \in StorageKeys :
          /\ sk \in DOMAIN overlayed.children
          /\ is_some(child_storage(overlayed, sk, Key1))
          /\ into_committed(overlayed).children[sk] = {}

\* C17 (ledger well-formedness): in every reachable state the ledger has at
\* least one layer, its last layer is Pending (opened by start_transaction or
\* not), the committed cursor is at most the ledger length; and no call marks
\* Committed, or anything else, a layer that is Dropped.
C17_LedgerWellFormed ==
    /\ [](/\ Len(overlayed.states) >= 1
          /\ overlayed.states[Len(overlayed.states)] \in {"Pending", "TxPending"}
          /\ overlayed.committed <= Len(overlayed.states))
    /\ [][\A i \in 1..Len(overlayed.states) :
             overlayed.states[i] = "Dropped" =>
                 /\ i <= Len(overlayed'.states)
                 /\ overlayed'.states[i] = "Dropped"]_vars

\* a commit_transaction has marked Committed the layers around a Dropped one
C17_Witness ==
    /\ last.call = <<"commit_transaction">>
    /\ \E i, j, k \in 1..Len(overlayed.states) :
          /\ i < j /\ j < k
          /\ overlayed.states[i] = "Committed"
          /\ overlayed.states[j] = "Dropped"
          /\ overlayed.states[k] = "Committed"

\* the histories held: those of the top map and of every child map
Histories(o) ==
    {o.top[k] : k \in DOMAIN o.top}
    \cup UNION {{o.children[sk][k] : k \in DOMAIN o.children[sk]} : sk \in DOMAIN o.children}

\* strictly increasing layer indices, none beyond the last layer of the ledger
WellShaped(h, states) ==
    /\ \A i \in 1..Len(h) : h[i].index >= 0 /\ h[i].index <= Len(states) - 1
    /\ \A i \in 1..(Len(h) - 1) : h[i].index < h[i + 1].index

\* C18 (history shape): in every reachable state every history is strictly
\* increasing in layer index (so at most one entry per layer) and holds no
\* index beyond the last layer; and a write grows the history of a key by at
\* most one entry, by none when the key was already written while the same
\* layer was the topmost one.
C18_HistoryShape ==
    /\ [](\A h \in Histories(overlayed) : WellShaped(h, overlayed.states))
    /\ [][last'.call[1] \in WriteCalls =>
            \A k \in DOMAIN overlayed'.top :
                /\ Len(overlayed'.top[k]) <= Len(HistoryOf(overlayed, None, k)) + 1
                /\ layer[k].n >= 1 =>
                      Len(overlayed'.top[k]) = Len(HistoryOf(overlayed, None, k))]_vars

\* Key1 has an entry of an earlier layer and was written twice while the last
\* layer was the topmost one: its history holds two entries
C18_Witness ==
    /\ last.call = <<"set_storage">>
    /\ layer[Key1].n = 2
    /\ Len(overlayed.top[Key1]) = 2
    /\ overlayed.top[Key1][1].index < overlayed.top[Key1][2].index
    /\ overlayed.top[Key1][2].index = Len(overlayed.states) - 1

\* the OverlayedChangeSet method a boundary call of OverlayedChanges runs first
ChangeSetApply(o, name) ==
    CASE name = "start_transaction" -> ChangeSet_start_transaction(o)
      [] name = "commit_transaction" -> ChangeSet_commit_transaction(o)
      [] name = "discard_transaction" -> ChangeSet_discard_transaction(o)
      [] name = "commit_prospective" -> ChangeSet_commit_prospective(o)
      [] name = "discard_prospective" -> ChangeSet_discard_prospective(o)

\* C19 (boundary calls change only the ledger): the OverlayedChangeSet method of
\* every boundary call leaves the top map, the child maps and so every history
\* as they were and appends a layer to the ledger; when the call does not go
\* on to collect garbage, that is all it has done.
C19_BoundaryOnlyLedger ==
    [][last'.call[1] \in BoundaryCalls =>
          LET mid == ChangeSetApply(overlayed, last'.call[1])
          IN /\ mid.top = overlayed.top
             /\ mid.children = overlayed.children
             /\ Len(mid.states) = Len(overlayed.states) + 1
             /\ overlayed'.operation_from_last_gc = overlayed.operation_from_last_gc =>
                   /\ overlayed'.top = overlayed.top
                   /\ overlayed'.children = overlayed.children
                   /\ overlayed'.states = mid.states]_vars

\* a discard_transaction has dropped the layer of an entry of Key1 and of an
\* entry of a child key: both histories still hold the entry
C19_Witness ==
    /\ last.call = <<"discard_transaction">>
    /\ HasDropped(overlayed, Key1, 0)
    /\ \E sk \in DOMAIN overlayed.children : \E k \in DOMAIN overlayed.children[sk] :
          \E i \in 1..Len(overlayed.children[sk][k]) :
              Mark(overlayed.states, overlayed.children[sk][k][i].index) = "Dropped"

\* what the claim says of a map after a clear of the keys under prefix: the
\* same keys, a matching key written a tombstone in the topmost layer by the
\* normal write, a key read as a value before read as deleted afterwards, any
\* other history as it was
ClearedMap(before, after, prefix, o) ==
    /\ DOMAIN after = DOMAIN before
    /\ \A k \in DOMAIN before :
          IF starts_with(k, prefix)
          THEN /\ after[k] = set_with_extrinsic_overlayed_value(
                                 before[k], o.states, None, extrinsic_index(o))
               /\ after[k][Len(after[k])].index = Len(o.states) - 1
               /\ after[k][Len(after[k])].value.value = None
               /\ get(after[k], o.states) # None
          ELSE after[k] = before[k]

\* the reads are those of before the clear once a discard covers it: the
\* discard of a transaction opened just before the clear, and the discard of
\* the prospective changes
ClearReverted(o, after) ==
    /\ last.call = <<"start_transaction">> =>
          /\ TopView(discard_transaction(after)) = TopView(o)
          /\ ChildView(discard_transaction(after)) = ChildView(o)
    /\ TopView(discard_prospective(after)) = snap
    /\ ChildView(discard_prospective(after)) = childsnap

\* C20 (prefix clears): clear_prefix and clear_child_prefix write a tombstone
\* in the topmost layer to every key of the map that starts with the prefix,
\* add no key and no child map, leave the other histories and the ledger as
\* they were; a key that read as a value reads as deleted afterwards, and a
\* discard covering the clear brings the earlier reads back.
C20_PrefixClear ==
    [][/\ last'.call = <<"clear_prefix">> =>
             \A prefix \in Prefixes :
                 overlayed' = clear_prefix(overlayed, prefix) =>
                     /\ ClearedMap(overlayed.top, overlayed'.top, prefix, overlayed)
                     /\ overlayed'.children = overlayed.children
                     /\ overlayed'.states = overlayed.states
                     /\ \A k \in Keys :
                           /\ starts_with(k, prefix)
                           /\ is_some(storage(overlayed, k))
                           /\ is_some(unwrap(storage(overlayed, k)))
                           => storage(overlayed', k) = Some(None)
                     /\ ClearReverted(overlayed, overlayed')
       /\ last'.call = <<"clear_child_prefix">> =>
             \A storage_key \in StorageKeys : \A prefix \in Prefixes :
                 overlayed' = clear_child_prefix(overlayed, storage_key, prefix) =>
                     /\ DOMAIN overlayed'.children = DOMAIN overlayed.children
                     /\ overlayed'.top = overlayed.top
                     /\ overlayed'.states = overlayed.states
                     /\ \A sk \in DOMAIN overlayed.children :
                           IF sk = storage_key
                           THEN ClearedMap(overlayed.children[sk], overlayed'.children[sk],
                                           prefix, overlayed)
                           ELSE overlayed'.children[sk] = overlayed.children[sk]
                     /\ \A k \in ChildKeys :
                           /\ starts_with(k, prefix)
                           /\ is_some(child_storage(overlayed, storage_key, k))
                           /\ is_some(unwrap(child_storage(overlayed, storage_key, k)))
                           => child_storage(overlayed', storage_key, k) = Some(None)
                     /\ ClearReverted(overlayed, overlayed')]_vars

\* a clear_prefix inside a transaction has written a tombstone over the value
\* of Key1: the history holds the value and, in the topmost layer, the
\* tombstone, and Key1 reads as deleted
C20_Witness ==
    /\ last.call = <<"clear_prefix">>
    /\ Key1 \in DOMAIN overlayed.top
    /\ Len(overlayed.top[Key1]) = 2
    /\ overlayed.top[Key1][1].value.value = Some(<<7>>)
    /\ overlayed.top[Key1][2].value.value = None
    /\ overlayed.top[Key1][2].index = Len(overlayed.states) - 1
    /\ Mark(overlayed.states, overlayed.top[Key1][2].index) = "TxPending"
    /\ storage(overlayed, Key1) = Some(None)

\* the threshold a boundary call compares the counter with, and the eagerness
\* of the collection it runs
TriggerOf(name) ==
    IF name \in {"commit_prospective", "discard_prospective"}
    THEN trigger_commit_gc ELSE trigger_transaction_gc
EagerOf(o, name) ==
    IF name \in {"commit_prospective", "discard_prospective"}
    THEN ~o.not_eager_gc ELSE FALSE

NoDropped(h, states) == \A i \in 1..Len(h) : Mark(states, h[i].index) # "Dropped"

\* every key of the top map and of the child maps reads as known and holds no
\* entry of a Dropped layer, and every child map holds a key
Clean(o) ==
    /\ \A k \in DOMAIN o.top :
          /\ storage(o, k) # None
          /\ NoDropped(o.top[k], o.states)
    /\ \A sk \in DOMAIN o.children :
          /\ DOMAIN o.children[sk] # {}
          /\ \A k \in DOMAIN o.children[sk] :
                /\ child_storage(o, sk, k) # None
                /\ NoDropped(o.children[sk][k], o.states)

\* C22 (after a collection): gc(eager), for either eagerness and run in any
\* state, leaves only keys that read as known, no entry of a Dropped layer in
\* any history and no child namespace with an empty map; so is the state right
\* after an explicit gc call.
C22_CleanAfterGc ==
    /\ \A eager \in BOOLEAN : Clean(gc(overlayed, eager))
    /\ last.call[1] = "gc" => Clean(overlayed)

\* a gc call has removed the child namespace whose only key was written in a
\* transaction then discarded, and has kept Key1, which reads as known
C22_Witness ==
    /\ last.call[1] = "gc"
    /\ last.pruned
    /\ nwrites = 2
    /\ DOMAIN overlayed.children = {}
    /\ Key1 \in DOMAIN overlayed.top
    /\ \E i \in 1..Len(overlayed.states) : overlayed.states[i] = "Dropped"

\* the pairs agree with the point read of every key: one pair, holding the
\* value read, for a key that reads as known, and no pair for any other key
AgreesWith(yielded, read, keys) ==
    /\ \A kv \in yielded : kv[1] \in keys
    /\ \A k \in keys :
          {kv \in yielded : kv[1] = k} =
              IF read[k] # None THEN {<<k, unwrap(read[k])>>} ELSE {}

\* the keys of the map whose history is empty or holds entries of Dropped
\* layers only
DeadKeys(m, states) ==
    {k \in DOMAIN m : \A i \in 1..Len(m[k]) : Mark(states, m[k][i].index) = "Dropped"}

\* C23 (iteration agrees with point reads): iter_values(None) yields exactly
\* one pair (k, v) for each top key that storage knows, v the value storage
\* returns, and no pair for a key whose history is empty or entirely discarded;
\* iter_values(Some(storage_key)) and children_iter agree in the same way with
\* child_storage.
C23_IterationAgrees ==
    /\ AgreesWith(iter_values(overlayed, None), TopView(overlayed), Keys)
    /\ \A k \in DeadKeys(overlayed.top, overlayed.states) :
          \A kv \in iter_values(overlayed, None) : kv[1] # k
    /\ \A sk \in StorageKeys :
          /\ AgreesWith(iter_values(overlayed, Some(sk)), ChildView(overlayed)[sk], ChildKeys)
          /\ sk \in DOMAIN overlayed.children =>
                /\ AgreesWith(children_iter(overlayed)[sk], ChildView(overlayed)[sk],
                              ChildKeys)
                /\ \A k \in DeadKeys(overlayed.children[sk], overlayed.states) :
                      \A kv \in children_iter(overlayed)[sk] : kv[1] # k
    /\ DOMAIN children_iter(overlayed) = DOMAIN overlayed.children

\* Key1 is still in the top map with its only write discarded and is not
\* yielded, while the child key written since is yielded with its value
C23_Witness ==
    /\ Key1 \in DeadKeys(overlayed.top, overlayed.states)
    /\ iter_values(overlayed, None) = {}
    /\ \E sk \in DOMAIN overlayed.children :
          /\ iter_values(overlayed, Some(sk)) = {<<Key1, Some(<<7>>)>>}
          /\ children_iter(overlayed)[sk] = {<<Key1, Some(<<7>>)>>}

\* C24 (indices of discarded writes do not leak): under a changes-trie
\* configuration the extrinsic set of the entry a read of a key resolves holds
\* only indices under which a write to that key was made that no discard has
\* covered; an index of a discarded write is in the set only if a write that
\* was not discarded was made under it too.
C24_NoLeak ==
    is_some(overlayed.changes_trie_config) =>
        \A k \in DOMAIN VisibleTop(overlayed) :
            /\ ExtrinsicsOf(VisibleTop(overlayed)[k]) \subseteq JoinAll(under.open)[k]
            /\ \A i \in under.dropped[k] :
                  i \in ExtrinsicsOf(VisibleTop(overlayed)[k]) => i \in JoinAll(under.open)[k]

\* Key1 was written under one index in a transaction since discarded and then
\* under another: the entry a read resolves holds the second index only
C24_Witness ==
    /\ is_some(overlayed.changes_trie_config)
    /\ last.call = <<"set_storage">>
    /\ Key1 \in DOMAIN VisibleTop(overlayed)
    /\ \E i \in under.dropped[Key1], j \in under.open[Len(under.open)][Key1] :
          /\ i # j
          /\ ExtrinsicsOf(VisibleTop(overlayed)[Key1]) = {j}
    /\ \E n \in 1..Len(overlayed.states) : overlayed.states[n] = "Dropped"

\* C25 (child namespaces appear by writes only): the children map has no entry
\* for a storage_key in which no key was ever written, whatever clear calls
\* were made on it, and is_empty() is true as long as no key was written at all.
C25_NamespaceByWriteOnly ==
    /\ \A storage_key \in StorageKeys :
          Some(storage_key) \notin spaces => storage_key \notin DOMAIN overlayed.children
    /\ spaces = {} => is_empty(overlayed)

====
